---- MODULE Spec2Model ----
(***************************************************************************)
(* Order service of lugx-gaming: handler -> service -> repository over the *)
(* PostgreSQL tables orders and order_items.                               *)
(*                                                                         *)
(* Representation.                                                         *)
(*  - Money is counted in thousandths (10 = one cent), so that the         *)
(*    DECIMAL(10,2) columns really round what is written to them.          *)
(*  - A UUID is a positive integer; 0 is the empty string (the zero value  *)
(*    of an unset id) and a negative number is a string that is not a      *)
(*    UUID.  uuid.New() returns a value never returned before.             *)
(*  - An item id is <<order id, u>>: unique, and ordered inside one order  *)
(*    by the random component u.                                           *)
(*  - A table is the set of its committed rows.                            *)
(***************************************************************************)
EXTENDS Integers, Sequences, FiniteSets, TLC

VARIABLES
    orders,       \* table orders: committed rows
    order_items,  \* table order_items: committed rows
    tx,           \* the CreateOrder transaction in flight and its position
    now,          \* the wall clock read by time.Now()
    issued,       \* order ids returned by uuid.New() so far -> number of requested items
    deleted,      \* order ids whose DELETE succeeded
    resp,         \* the last HTTP response written
    scan,         \* pages returned by consecutive GET /orders calls since the last write
    games,        \* game service: table games
    game_seq,     \* game service: last value of the sequence of games.id
    game_deleted, \* game service: ids whose DELETE succeeded
    gresp,        \* game service: the last HTTP response written
    events,       \* analytics service: the rows of each table, in insertion order
    aresp,        \* analytics service: the last HTTP response written
    calls,        \* the requests in flight: caller -> request and its position
    tracker       \* front-end tracker: the page load, its max scroll and reports sent

\* the state of the game service and of the analytics service
game_vars == <<games, game_seq, game_deleted, gresp>>

analytics_vars == <<events, aresp, tracker>>

vars == <<orders, order_items, tx, now, issued, deleted, resp, scan,
          games, game_seq, game_deleted, gresp, events, aresp, calls, tracker>>

---------------------------------------------------------------------------
(* Bounds of the model *)

MaxOrders == 2      \* order ids issued in one behaviour
MaxItems == 2       \* items in one create request
MaxClock == 1       \* last clock value
MaxListOrders == 2  \* order ids issued in one behaviour of the listing specification
\* The statistics read the newest 1000 orders (GetAllOrders(1000, 0)).  The
\* model keeps the proportion, not the number: the limit of the statistics
\* query is StatsLimit, below the number of orders a behaviour can store, as
\* 1000 is below the number of orders the table can hold.
StatsLimit == 1
MaxGames == 2       \* values the sequence of games.id issues in one behaviour
MaxEvents == 2      \* rows the analytics tables receive in one behaviour
MaxScrollReports == 4  \* scroll reports the tracker sends in one page load
MaxPageLoads == 2      \* page loads of one behaviour
\* Go's int has 64 bits on the platforms the service is built for.  The model
\* keeps the two's complement arithmetic and scales the width to IntBits, so
\* that a product can leave the range of int inside the range of the checker.
IntBits == 16

---------------------------------------------------------------------------
(* Helpers *)

Range(s) == {s[i] : i \in 1..Len(s)}

Min(a, b) == IF a < b THEN a ELSE b

---------------------------------------------------------------------------
(* models: order_repository.go 255-319 *)

validStatuses == {"pending", "confirmed", "processing", "shipped", "delivered", "cancelled"}

NoOrder == [ID |-> 0, CustomerID |-> "", TotalPrice |-> 0, Status |-> "",
            OrderDate |-> 0, CreatedAt |-> 0, UpdatedAt |-> 0, Items |-> <<>>]

\* CreateOrderItemRequest as decoded from JSON (an absent key is the zero value)
CreateOrderItemRequest(gid, name, price, qty) ==
    [game_id |-> gid, game_name |-> name, price |-> price, quantity |-> qty]

\* CreateOrderRequest as decoded from JSON; nil: the key "items" is absent or null
CreateOrderRequest(cust, items, nil) ==
    [customer_id |-> cust, items |-> items, nil |-> nil]

NoRequest == CreateOrderRequest("", <<>>, TRUE)

---------------------------------------------------------------------------
(* The request inputs *)

CustomerIDs == {"", "c1"}

\* every create request over the input sets
AllRequests ==
    LET items == {CreateOrderItemRequest(g.game_id, g.game_name, p, q) :
                     g \in {[game_id |-> 0, game_name |-> "A"], [game_id |-> 1, game_name |-> "B"]},
                     p \in {0 - 5, 0, 5, 10}, q \in {0, 1, 2}}
    IN {CreateOrderRequest(c, s, FALSE) :
           c \in CustomerIDs, s \in UNION {[1..k -> items] : k \in 0..MaxItems}}
          \cup {CreateOrderRequest(c, <<>>, TRUE) : c \in CustomerIDs}

\* create requests of the lifecycle specification
LifeItemRequest == CreateOrderItemRequest(1, "B", 10, 1)

LifeRequests ==
    {CreateOrderRequest(c, s, FALSE) :
        c \in CustomerIDs, s \in {<<>>, <<LifeItemRequest>>, <<LifeItemRequest, LifeItemRequest>>}}
        \cup {CreateOrderRequest(c, <<>>, TRUE) : c \in CustomerIDs}

\* create requests of the listing specification
ListRequests ==
    {CreateOrderRequest(c, <<CreateOrderItemRequest(1, "B", 10, 1)>>, FALSE) : c \in {"c1", "c2"}}

---------------------------------------------------------------------------
(* Responses *)

Response(op, code) ==
    [op |-> op, code |-> code, id |-> 0, req |-> NoRequest, status |-> "",
     error |-> "", details |-> "", game |-> "", order |-> NoOrder,
     orders |-> <<>>, total |-> 0, page |-> 0, page_size |-> 0, customer_id |-> "",
     revenue |-> 0, status_counts |-> <<>>,
     \* the arguments of the last call of OrderRepository.GetAllOrders
     limit |-> 0, offset |-> 0]

---------------------------------------------------------------------------
(* Columns: connection.go createTables *)

\* a float64 amount written to a DECIMAL(10,2) column: rounded to the cent,
\* halves away from zero
ToDecimal2(x) ==
    IF x >= 0 THEN ((x + 5) \div 10) * 10 ELSE 0 - (((0 - x) + 5) \div 10) * 10

\* the row INSERT INTO orders writes for an order
OrderRow(o) ==
    [id |-> o.ID, customer_id |-> o.CustomerID, total_price |-> ToDecimal2(o.TotalPrice),
     status |-> o.Status, order_date |-> o.OrderDate, created_at |-> o.CreatedAt,
     updated_at |-> o.UpdatedAt]

\* the row INSERT INTO order_items writes for an item
ItemRow(it) ==
    [id |-> it.ID, order_id |-> it.OrderID, game_id |-> it.GameID,
     game_name |-> it.GameName, price |-> ToDecimal2(it.Price),
     quantity |-> it.Quantity, subtotal |-> ToDecimal2(it.Subtotal)]

---------------------------------------------------------------------------
(* database/sql transactions as the repository uses them *)

\* tx.Exec: the written row is pending, invisible outside the transaction
TxExec_Autocommit(committed, pending, row) ==
    [committed |-> committed \cup {row}, pending |-> pending]

TxExec(committed, pending, row) ==
    [committed |-> committed, pending |-> pending \cup {row}]

\* tx.Commit: all pending rows become visible at once
TxCommit(committed, pending) == committed \cup pending

\* the deferred tx.Rollback: the pending rows are dropped
TxRollback(committed, pending) == committed

IdleTx == [pc |-> "idle", req |-> NoRequest, order |-> NoOrder, k |-> 0,
           orders |-> {}, items |-> {}]

\* no page of GET /orders read since the last write
NoScan == [size |-> 0, pages |-> <<>>]

\* uuid.New() for an order
NewOrderID == Cardinality(DOMAIN issued) + 1

---------------------------------------------------------------------------
(* POST /api/v1/orders: handler, service, repository *)

\* c.ShouldBindJSON(&request).  The tags of CreateOrderRequest are evaluated:
\* customer_id required; items required (not nil) and min=1 (length).  The
\* tags of CreateOrderItemRequest are not: the validator enters the elements
\* of a slice only under a dive tag, and Items carries none.
BindCreateOrderRequest_NoCustomer(r) ==
    /\ ~r.nil
    /\ Len(r.items) >= 1

BindCreateOrderRequest_Dive(r) ==
    /\ r.customer_id # ""
    /\ ~r.nil
    /\ Len(r.items) >= 1
    /\ \A i \in 1..Len(r.items) :
          /\ r.items[i].game_id # 0
          /\ r.items[i].game_name # ""
          /\ r.items[i].price # 0 /\ r.items[i].price >= 0
          /\ r.items[i].quantity # 0 /\ r.items[i].quantity >= 1

BindCreateOrderRequest(r) ==
    /\ r.customer_id # ""
    /\ ~r.nil
    /\ Len(r.items) >= 1

\* the loop of OrderService.CreateOrder from item i on: the first item that
\* fails a check ends the call with an error carrying its game name
RECURSIVE CheckItems(_, _)
CheckItems(items, i) ==
    IF i > Len(items) THEN [ok |-> TRUE, details |-> "", game |-> ""]
    ELSE IF items[i].quantity <= 0
         THEN [ok |-> FALSE, details |-> "quantity must be greater than 0 for game",
               game |-> items[i].game_name]
    ELSE IF items[i].price < 0
         THEN [ok |-> FALSE, details |-> "price cannot be negative for game",
               game |-> items[i].game_name]
    ELSE CheckItems(items, i + 1)

RECURSIVE CheckItems_QuantityOnly(_, _)
CheckItems_QuantityOnly(items, i) ==
    IF i > Len(items) THEN [ok |-> TRUE, details |-> "", game |-> ""]
    ELSE IF items[i].quantity <= 0
         THEN [ok |-> FALSE, details |-> "quantity must be greater than 0 for game",
               game |-> items[i].game_name]
    ELSE CheckItems_QuantityOnly(items, i + 1)

\* the validation of OrderService.CreateOrder
ServiceValidate_FirstItemOnly(r) ==
    IF Len(r.items) = 0
    THEN [ok |-> FALSE, details |-> "order must contain at least one item", game |-> ""]
    ELSE CheckItems(SubSeq(r.items, 1, 1), 1)

ServiceValidate(r) ==
    IF Len(r.items) = 0
    THEN [ok |-> FALSE, details |-> "order must contain at least one item", game |-> ""]
    ELSE CheckItems(r.items, 1)

\* the order model OrderService.CreateOrder builds from the request
ServiceOrder(r) ==
    [NoOrder EXCEPT
        !.CustomerID = r.customer_id,
        !.Items = [i \in 1..Len(r.items) |->
                     [[ID |-> <<0, 0>>, OrderID |-> 0, GameID |-> 0, GameName |-> "",
                       Price |-> 0, Quantity |-> 0, Subtotal |-> 0]
                        EXCEPT !.GameID = r.items[i].game_id,
                                    !.GameName = r.items[i].game_name,
                                    !.Price = r.items[i].price,
                                    !.Quantity = r.items[i].quantity]]]

\* order.Items[i].Subtotal = Price * float64(Quantity)
Subtotal_PriceOnly(it) == it.Price

Subtotal(it) == it.Price * it.Quantity

\* totalPrice += order.Items[i].Subtotal, for i from 1 with totalPrice = acc
TotalPrice_LastItem(items, i, acc) ==
    IF Len(items) = 0 THEN acc ELSE items[Len(items)].Subtotal

RECURSIVE TotalPrice(_, _, _)
TotalPrice(items, i, acc) ==
    IF i > Len(items) THEN acc
    ELSE TotalPrice(items, i + 1, acc + items[i].Subtotal)

\* OrderRepository.CreateOrder after Begin: id, status, dates, subtotals, total
PrepareOrder_NoStatus(o, id, t) ==
    LET items == [i \in 1..Len(o.Items) |-> [o.Items[i] EXCEPT !.Subtotal = Subtotal(o.Items[i])]]
    IN [o EXCEPT !.ID = id, !.OrderDate = t,
                 !.CreatedAt = t, !.UpdatedAt = t, !.Items = items,
                 !.TotalPrice = TotalPrice(items, 1, 0)]

PrepareOrder(o, id, t) ==
    LET items == [i \in 1..Len(o.Items) |-> [o.Items[i] EXCEPT !.Subtotal = Subtotal(o.Items[i])]]
    IN [o EXCEPT !.ID = id, !.Status = "pending", !.OrderDate = t,
                 !.CreatedAt = t, !.UpdatedAt = t, !.Items = items,
                 !.TotalPrice = TotalPrice(items, 1, 0)]

CreateResponse(code, r, error, details, game) ==
    [Response("create", code) EXCEPT !.req = r, !.error = error,
                                     !.details = details, !.game = game]

\* the request up to and including r.db.Begin()
CreateOrder(r, maxOrders) ==
    /\ UNCHANGED <<game_vars, analytics_vars, calls>>
    /\ tx.pc = "idle"
    /\ IF ~BindCreateOrderRequest(r)
       THEN /\ resp' = CreateResponse(400, r, "Invalid request body", "binding", "")
            /\ UNCHANGED <<orders, order_items, tx, now, issued, deleted, scan>>
       ELSE LET v == ServiceValidate(r) IN
            IF ~v.ok
            THEN /\ resp' = CreateResponse(400, r, "Failed to create order", v.details, v.game)
                 /\ UNCHANGED <<orders, order_items, tx, now, issued, deleted, scan>>
            ELSE \E began \in BOOLEAN :
                   IF ~began
                   THEN /\ resp' = CreateResponse(400, r, "Failed to create order",
                                                  "failed to begin transaction", "")
                        /\ UNCHANGED <<orders, order_items, tx, now, issued, deleted, scan>>
                   ELSE /\ Cardinality(DOMAIN issued) < maxOrders
                        /\ tx' = [IdleTx EXCEPT !.pc = "order", !.req = r,
                                     !.order = PrepareOrder(ServiceOrder(r), NewOrderID, now)]
                        /\ issued' = issued @@ (NewOrderID :> Len(r.items))
                        /\ UNCHANGED <<orders, order_items, now, deleted, resp, scan>>

\* a failed statement: CreateOrder returns, the deferred Rollback runs
CreateFailed(details) ==
    /\ orders' = TxRollback(orders, tx.orders)
    /\ order_items' = TxRollback(order_items, tx.items)
    /\ tx' = IdleTx
    /\ resp' = [CreateResponse(400, tx.req, "Failed to create order", details, "")
                   EXCEPT !.id = tx.order.ID]
    /\ UNCHANGED <<now, issued, deleted, scan>>

\* tx.Exec(INSERT INTO orders ...)
InsertOrder ==
    /\ UNCHANGED <<game_vars, analytics_vars, calls>>
    /\ tx.pc = "order"
    /\ \E ok \in BOOLEAN :
          IF ~ok THEN CreateFailed("failed to insert order")
          ELSE LET w == TxExec(orders, tx.orders, OrderRow(tx.order)) IN
               /\ orders' = w.committed
               /\ tx' = [tx EXCEPT !.orders = w.pending,
                                   !.pc = "items"]
               /\ UNCHANGED <<order_items, now, issued, deleted, resp, scan>>

\* one round of the item loop: uuid.New(), tx.Exec(INSERT INTO order_items ...)
InsertOrderItem ==
    /\ UNCHANGED <<game_vars, analytics_vars, calls>>
    /\ tx.pc = "items"
    /\ tx.k < Len(tx.order.Items)
    /\ \E u \in (1..Len(tx.order.Items)) \ {tx.order.Items[j].ID[2] : j \in 1..tx.k} :
       \E ok \in BOOLEAN :
          LET i == tx.k + 1
              it == [tx.order.Items[i] EXCEPT !.ID = <<tx.order.ID, u>>,
                                              !.OrderID = tx.order.ID]
              w == TxExec(order_items, tx.items, ItemRow(it))
          IN IF ~ok THEN CreateFailed("failed to insert order item")
             ELSE /\ order_items' = w.committed
                  /\ tx' = [tx EXCEPT !.order.Items[i] = it, !.items = w.pending, !.k = i]
                  /\ UNCHANGED <<orders, now, issued, deleted, resp, scan>>

\* return tx.Commit(), and the handler's 201
Commit ==
    /\ UNCHANGED <<game_vars, analytics_vars, calls>>
    /\ tx.pc = "items"
    /\ tx.k = Len(tx.order.Items)
    /\ \E ok \in BOOLEAN :
          IF ~ok THEN CreateFailed("commit")
          ELSE /\ orders' = TxCommit(orders, tx.orders)
               /\ order_items' = TxCommit(order_items, tx.items)
               /\ tx' = IdleTx
               /\ resp' = [Response("create", 201) EXCEPT !.req = tx.req,
                              !.id = tx.order.ID, !.order = tx.order]
               /\ scan' = NoScan
               /\ UNCHANGED <<now, issued, deleted>>

\* time passes
Tick ==
    /\ UNCHANGED <<game_vars, analytics_vars, calls>>
    /\ now < MaxClock
    /\ now' = now + 1
    /\ UNCHANGED <<orders, order_items, tx, issued, deleted, resp, scan>>

---------------------------------------------------------------------------
(* Reads of the committed tables *)

\* how the store takes an id parameter for a UUID column: a string that is
\* not a UUID is an error of the statement
IsUUID(id) == id > 0

\* SELECT ... FROM order_items WHERE order_id = $1 ORDER BY id, from rows
RECURSIVE ItemsByID(_)
ItemsByID(rows) ==
    IF rows = {} THEN <<>>
    ELSE LET first == CHOOSE r \in rows : \A q \in rows : r.id[2] <= q.id[2]
         IN <<first>> \o ItemsByID(rows \ {first})

\* rows.Scan into models.OrderItem
ScanItem(row) ==
    [ID |-> row.id, OrderID |-> row.order_id, GameID |-> row.game_id,
     GameName |-> row.game_name, Price |-> row.price, Quantity |-> row.quantity,
     Subtotal |-> row.subtotal]

\* OrderRepository.getOrderItems
getOrderItems_Unfiltered(orderID) ==
    LET rows == ItemsByID(order_items)
    IN [i \in 1..Len(rows) |-> ScanItem(rows[i])]

getOrderItems(orderID) ==
    LET rows == ItemsByID({r \in order_items : r.order_id = orderID})
    IN [i \in 1..Len(rows) |-> ScanItem(rows[i])]

\* created_at and updated_at of orders have a default and no NOT NULL; the
\* statements of the service always give both a value
Null == 0 - 1

\* rows.Scan of an orders row: NULL does not convert to time.Time
Decodable(row) == row.created_at # Null /\ row.updated_at # Null

\* the part of a result that is scanned before the first row fails
RECURSIVE ScannedPrefix(_)
ScannedPrefix(rows) ==
    IF rows = <<>> \/ ~Decodable(Head(rows)) THEN <<>>
    ELSE <<Head(rows)>> \o ScannedPrefix(Tail(rows))

\* a writer other than the service inserts an order and leaves created_at
\* and updated_at NULL
InsertForeignOrder(c, maxOrders) ==
    /\ UNCHANGED <<game_vars, analytics_vars, calls>>
    /\ Cardinality(DOMAIN issued) < maxOrders
    /\ orders' = orders \cup
          {[id |-> NewOrderID, customer_id |-> c, total_price |-> 0, status |-> "pending",
            order_date |-> now, created_at |-> Null, updated_at |-> Null]}
    /\ issued' = issued @@ (NewOrderID :> 0)
    /\ scan' = NoScan
    /\ UNCHANGED <<order_items, tx, now, deleted, resp>>

\* Scan of an orders row into models.Order, and its items
ScanOrder(row) ==
    [ID |-> row.id, CustomerID |-> row.customer_id, TotalPrice |-> row.total_price,
     Status |-> row.status, OrderDate |-> row.order_date, CreatedAt |-> row.created_at,
     UpdatedAt |-> row.updated_at, Items |-> getOrderItems(row.id)]

\* the results ORDER BY order_date DESC may produce for a set of rows: rows
\* of equal order_date come in any order
ByOrderDateDesc_Stable(rows) ==
    {s \in [1..Cardinality(rows) -> rows] :
        /\ \A i, j \in DOMAIN s : i # j => s[i] # s[j]
        /\ \A i, j \in DOMAIN s : i < j =>
              \/ s[i].order_date > s[j].order_date
              \/ s[i].order_date = s[j].order_date /\ s[i].id < s[j].id}

ByOrderDateDesc_Any(rows) ==
    {s \in [1..Cardinality(rows) -> rows] : \A i, j \in DOMAIN s : i # j => s[i] # s[j]}

ByOrderDateDesc(rows) ==
    {s \in [1..Cardinality(rows) -> rows] :
        /\ \A i, j \in DOMAIN s : i # j => s[i] # s[j]
        /\ \A i, j \in DOMAIN s : i < j => s[i].order_date >= s[j].order_date}

\* LIMIT $1 OFFSET $2 of a result
LimitOffset(s, limit, offset) ==
    SubSeq(s, offset + 1, Min(Len(s), offset + limit))

---------------------------------------------------------------------------
(* PUT /api/v1/orders/:id/status *)

\* UPDATE orders SET status = $1, updated_at = $2 WHERE id = $3
UpdateRows_UpdatedAtOnly(id, status, t) ==
    {IF o.id = id THEN [o EXCEPT !.updated_at = t] ELSE o : o \in orders}

UpdateRows_AnyRow(id, status, t) ==
    {[o EXCEPT !.status = status, !.updated_at = t] : o \in orders}

UpdateRows_OrderDateToo(id, status, t) ==
    {IF o.id = id THEN [o EXCEPT !.status = status, !.updated_at = t, !.order_date = t]
     ELSE o : o \in orders}

UpdateRows_DeliveredIsFinal(id, status, t) ==
    {IF o.id = id /\ o.status # "delivered"
     THEN [o EXCEPT !.status = status, !.updated_at = t] ELSE o : o \in orders}

UpdateRows(id, status, t) ==
    {IF o.id = id THEN [o EXCEPT !.status = status, !.updated_at = t] ELSE o : o \in orders}

\* the check of OrderService.UpdateOrderStatus
ServiceStatusValid_Any(status) == TRUE

ServiceStatusValid(status) == status \in validStatuses

\* the binding of UpdateOrderStatusRequest: required, oneof
BindUpdateOrderStatusRequest_Any(status) == TRUE

BindUpdateOrderStatusRequest(status) ==
    /\ status # ""
    /\ status \in {"pending", "confirmed", "processing", "shipped", "delivered", "cancelled"}

UpdateResponse(code, id, status, error, details) ==
    [Response("update", code) EXCEPT !.id = id, !.status = status,
                                     !.error = error, !.details = details]

\* OrderRepository.UpdateOrderStatus: the error returned and the table after
RepoUpdateOrderStatus_Upsert(id, status, ok) ==
    IF ~ok
    THEN [err |-> "failed to update order status", orders |-> orders]
    ELSE IF \A o \in orders : o.id # id
    THEN [err |-> "",
          orders |-> orders \cup
             {[id |-> id, customer_id |-> "", total_price |-> 0, status |-> status,
               order_date |-> now, created_at |-> now, updated_at |-> now]}]
    ELSE [err |-> "", orders |-> UpdateRows(id, status, now)]

RepoUpdateOrderStatus(id, status, ok) ==
    IF ~ok
    THEN [err |-> "failed to update order status", orders |-> orders]
    ELSE IF ~IsUUID(id)
    THEN [err |-> "failed to update order status: invalid input syntax for type uuid",
          orders |-> orders]
    ELSE IF \A o \in orders : o.id # id
    THEN [err |-> "order not found", orders |-> orders]
    ELSE [err |-> "", orders |-> UpdateRows(id, status, now)]

\* OrderService.UpdateOrderStatus: the error returned and the table after
ServiceUpdateOrderStatus(id, status, ok) ==
    IF id = 0 THEN [err |-> "order ID is required", orders |-> orders]
    ELSE IF ~ServiceStatusValid(status) THEN [err |-> "invalid status", orders |-> orders]
    ELSE RepoUpdateOrderStatus(id, status, ok)

\* OrderHandler.UpdateOrderStatus
UpdateOrderStatus(id, status) ==
    /\ UNCHANGED <<game_vars, analytics_vars, calls>>
    /\ \E ok \in BOOLEAN :
          LET r == ServiceUpdateOrderStatus(id, status, ok) IN
          IF ~BindUpdateOrderStatusRequest(status)
          THEN /\ resp' = UpdateResponse(400, id, status, "Invalid request body", "binding")
               /\ UNCHANGED <<orders, order_items, tx, now, issued, deleted, scan>>
          ELSE /\ orders' = r.orders
               /\ resp' = IF r.err = "" THEN UpdateResponse(200, id, status, "", "")
                          ELSE IF r.err = "order not found"
                          THEN UpdateResponse(404, id, status, "Order not found", "")
                          ELSE UpdateResponse(400, id, status,
                                              "Failed to update order status", r.err)
               /\ scan' = IF r.err = "" THEN NoScan ELSE scan
               /\ UNCHANGED <<order_items, tx, now, issued, deleted>>

---------------------------------------------------------------------------
(* DELETE /api/v1/orders/:id *)

\* order_items.order_id REFERENCES orders(id) ON DELETE CASCADE
Cascade_None(items, id) == items

Cascade(items, id) == {r \in items : r.order_id # id}

DeleteResponse(code, id, error, details) ==
    [Response("delete", code) EXCEPT !.id = id, !.error = error, !.details = details]

DeleteOrder(id) ==
    /\ UNCHANGED <<game_vars, analytics_vars, calls>>
    /\ IF id = 0
       THEN /\ resp' = DeleteResponse(500, id, "Failed to delete order", "order ID is required")
            /\ UNCHANGED <<orders, order_items, tx, now, issued, deleted, scan>>
       ELSE \E ok \in BOOLEAN :
            IF ~ok
            THEN /\ resp' = DeleteResponse(500, id, "Failed to delete order",
                                           "failed to delete order")
                 /\ UNCHANGED <<orders, order_items, tx, now, issued, deleted, scan>>
            ELSE IF ~IsUUID(id)
            THEN /\ resp' = DeleteResponse(500, id, "Failed to delete order",
                               "failed to delete order: invalid input syntax for type uuid")
                 /\ UNCHANGED <<orders, order_items, tx, now, issued, deleted, scan>>
            ELSE IF \A o \in orders : o.id # id
            THEN /\ resp' = DeleteResponse(404, id, "Order not found", "")
                 /\ UNCHANGED <<orders, order_items, tx, now, issued, deleted, scan>>
            ELSE /\ orders' = {o \in orders : o.id # id}
                 /\ order_items' = Cascade(order_items, id)
                 /\ deleted' = deleted \cup {id}
                 /\ resp' = DeleteResponse(200, id, "", "")
                 /\ scan' = NoScan
                 /\ UNCHANGED <<tx, now, issued>>

---------------------------------------------------------------------------
(* GET /api/v1/orders/:id *)

GetResponse(code, id, error, details, order) ==
    [Response("get", code) EXCEPT !.id = id, !.error = error, !.details = details,
                                  !.order = order]

\* the response of the handler in the current state of the tables
GetOrderByIDResult_Always200(id, ok) ==
    GetResponse(200, id, "", "", NoOrder)

GetOrderByIDResult(id, ok) ==
    IF id = 0
    THEN GetResponse(500, id, "Failed to get order", "order ID is required", NoOrder)
    ELSE IF ~ok
    THEN GetResponse(500, id, "Failed to get order", "failed to get order", NoOrder)
    ELSE IF ~IsUUID(id)
    THEN GetResponse(500, id, "Failed to get order",
                     "failed to get order: invalid input syntax for type uuid", NoOrder)
    ELSE IF \A o \in orders : o.id # id
    THEN GetResponse(404, id, "Order not found", "", NoOrder)
    ELSE IF ~Decodable(CHOOSE o \in orders : o.id = id)
    THEN GetResponse(500, id, "Failed to get order",
                     "failed to get order: converting NULL to time.Time", NoOrder)
    ELSE GetResponse(200, id, "", "", ScanOrder(CHOOSE o \in orders : o.id = id))

GetOrderByID(id) ==
    /\ UNCHANGED <<game_vars, analytics_vars, calls>>
    /\ \E ok \in BOOLEAN : resp' = GetOrderByIDResult(id, ok)
    /\ UNCHANGED <<orders, order_items, tx, now, issued, deleted, scan>>

---------------------------------------------------------------------------
(* GET /api/v1/orders/customer/:customer_id *)

\* WHERE customer_id = $1
WhereCustomer_All(c) == orders

WhereCustomer(c) == {o \in orders : o.customer_id = c}

ListResponse(op, code, error, details) ==
    [Response(op, code) EXCEPT !.error = error, !.details = details]

GetOrdersByCustomerID(c) ==
    /\ UNCHANGED <<game_vars, analytics_vars, calls>>
    /\ UNCHANGED <<orders, order_items, tx, now, issued, deleted, scan>>
    /\ IF c = ""
       THEN resp' = [ListResponse("bycustomer", 500, "Failed to get orders",
                                  "customer ID is required") EXCEPT !.customer_id = c]
       ELSE \E ok \in BOOLEAN :
            IF ~ok
            THEN resp' = [ListResponse("bycustomer", 500, "Failed to get orders",
                                       "failed to query orders") EXCEPT !.customer_id = c]
            ELSE \E s \in ByOrderDateDesc(WhereCustomer(c)) :
                 IF ScannedPrefix(s) # s
                 THEN resp' = [ListResponse("bycustomer", 500, "Failed to get orders",
                                            "failed to scan order") EXCEPT !.customer_id = c]
                 ELSE
                 resp' = [Response("bycustomer", 200) EXCEPT
                             !.customer_id = c,
                             !.orders = [i \in 1..Len(s) |-> ScanOrder(s[i])],
                             !.total = Len(s)]

---------------------------------------------------------------------------
(* GET /api/v1/orders?page=&page_size= *)

DefaultPageSize == 10
MaxPageSize == 100

\* a query parameter: absent, or a string strconv.Atoi parses to val or rejects
Absent == [kind |-> "absent", val |-> 0]
NotANumber == [kind |-> "nan", val |-> 0]
Number(v) == [kind |-> "int", val |-> v]

\* OrderHandler.GetAllOrders: the page and page size the handler passes on
HandlerPage(q) == IF q.kind = "int" /\ q.val > 0 THEN q.val ELSE 1

HandlerPageSize(q) ==
    IF q.kind = "int" /\ q.val > 0 /\ q.val <= MaxPageSize THEN q.val ELSE DefaultPageSize

\* OrderService.GetAllOrders: normalisation and offset
ServicePage(page) == IF page < 1 THEN 1 ELSE page

ServicePageSize(pageSize) ==
    IF pageSize < 1 \/ pageSize > MaxPageSize THEN DefaultPageSize ELSE pageSize

\* the range of int, and the result of an int operation with the exact value x
MaxInt == 2 ^ (IntBits - 1) - 1

Offset(page, pageSize) ==
    LET x == (page - 1) * pageSize
    IN ((x + 2 ^ (IntBits - 1)) % (2 ^ IntBits)) - 2 ^ (IntBits - 1)

\* SELECT COUNT(*) FROM orders
CountOrders_PageOnly(page) == Len(page)

CountOrders(page) == Cardinality(orders)

\* the request with the outcome of its statements: ok, and the result s of
\* the ORDER BY query
ListOrders(pageParam, sizeParam, ok, s) ==
    LET hpage == HandlerPage(pageParam)
        hsize == HandlerPageSize(sizeParam)
        page == ServicePage(hpage)
        pageSize == ServicePageSize(hsize)
        offset == Offset(page, pageSize)
        rows == LimitOffset(s, pageSize, offset)
        result == [i \in 1..Len(rows) |-> ScanOrder(rows[i])]
    IN /\ UNCHANGED <<orders, order_items, tx, now, issued, deleted>>
       /\ IF ~ok
          THEN resp' = [ListResponse("list", 500, "Failed to get orders",
                                     "failed to query orders")
                           EXCEPT !.limit = pageSize, !.offset = offset]
          ELSE IF offset < 0
          THEN resp' = [ListResponse("list", 500, "Failed to get orders",
                           "failed to query orders: OFFSET must not be negative")
                           EXCEPT !.limit = pageSize, !.offset = offset]
          ELSE IF ScannedPrefix(rows) # rows
          THEN resp' = [ListResponse("list", 500, "Failed to get orders",
                                     "failed to scan order")
                           EXCEPT !.limit = pageSize, !.offset = offset]
          ELSE resp' = [Response("list", 200) EXCEPT
                           !.orders = result,
                           !.total = CountOrders(result),
                           !.page = hpage,
                           !.page_size = hsize,
                           !.limit = pageSize,
                           !.offset = offset]

GetAllOrders(pageParam, sizeParam) ==
    /\ UNCHANGED <<game_vars, analytics_vars, calls>>
    /\ \E ok \in BOOLEAN : \E s \in ByOrderDateDesc(orders) :
          ListOrders(pageParam, sizeParam, ok, s)
    /\ UNCHANGED scan

\* the same request made by a client that walks through the pages and keeps
\* the ids each page showed
WalkPage(pageParam, sizeParam) ==
    /\ UNCHANGED <<game_vars, analytics_vars, calls>>
    /\ \E s \in ByOrderDateDesc(orders) :
          /\ ListOrders(pageParam, sizeParam, TRUE, s)
          /\ LET page == ServicePage(HandlerPage(pageParam))
                 pageSize == ServicePageSize(HandlerPageSize(sizeParam))
                 ids == {resp'.orders[i].ID : i \in 1..Len(resp'.orders)}
             IN scan' = IF page = 1 THEN [size |-> pageSize, pages |-> <<ids>>]
                        ELSE IF scan.size = pageSize /\ page = Len(scan.pages) + 1
                        THEN [scan EXCEPT !.pages = Append(scan.pages, ids)]
                        ELSE scan

---------------------------------------------------------------------------
(* GET /api/v1/orders/stats *)

\* totalRevenue += order.TotalPrice for the delivered orders of the slice
RECURSIVE TotalRevenue(_, _, _)
TotalRevenue(os, i, acc) ==
    IF i > Len(os) THEN acc
    ELSE TotalRevenue(os, i + 1,
                      IF os[i].Status = "delivered" THEN acc + os[i].TotalPrice ELSE acc)

\* statusCounts[order.Status]++ over the slice: a map with the statuses met
StatusCounts(os) ==
    [st \in {os[i].Status : i \in 1..Len(os)} |->
        Cardinality({i \in 1..Len(os) : os[i].Status = st})]

\* the limit GetOrderStatistics passes to OrderRepository.GetAllOrders; the
\* rows it receives are cut at StatsLimit, which stands for it in proportion
\* to the orders a behaviour stores
StatsQueryLimit == 1000

\* OrderService.GetOrderStatistics over the result s of the ORDER BY query
\* and OrderHandler.GetOrderStatistics
GetOrderStatistics ==
    /\ UNCHANGED <<game_vars, analytics_vars, calls>>
    /\ UNCHANGED <<orders, order_items, tx, now, issued, deleted, scan>>
    /\ \E ok \in BOOLEAN : \E s \in ByOrderDateDesc(orders) :
          LET rows == LimitOffset(s, StatsLimit, 0)
              os == [i \in 1..Len(rows) |-> ScanOrder(rows[i])]
          IN IF ~ok \/ ScannedPrefix(rows) # rows
             THEN resp' = [ListResponse("stats", 500, "Failed to get order statistics",
                                        "failed to get orders for statistics")
                              EXCEPT !.limit = StatsQueryLimit]
             ELSE resp' = [Response("stats", 200) EXCEPT
                              !.limit = StatsQueryLimit,
                              !.total = CountOrders(os),
                              !.revenue = TotalRevenue(os, 1, 0),
                              !.status_counts = StatusCounts(os)]

---------------------------------------------------------------------------
(* Game service: handler -> service -> repository over the table games.    *)
(* A game id is an integer of the sequence behind the SERIAL column. An id *)
(* parameter of a route is a string: Number(v) or NotANumber.              *)

Game(id, name, category, date, price, created, updated) ==
    [ID |-> id, Name |-> name, Category |-> category, ReleasedDate |-> date,
     Price |-> price, CreatedAt |-> created, UpdatedAt |-> updated]

\* the zero time.Time
ZeroDate == <<1, 1, 1>>

NoGame == Game(0, "", "", ZeroDate, 0, 0, 0)

CreateGameRequest(name, category, date, price) ==
    [name |-> name, category |-> category, released_date |-> date, price |-> price]

\* the pointer fields of UpdateGameRequest
NilString == [set |-> FALSE, str |-> "", num |-> 0]
NilNumber == [set |-> FALSE, str |-> "", num |-> 0]
PtrString(v) == [set |-> TRUE, str |-> v, num |-> 0]
PtrNumber(v) == [set |-> TRUE, str |-> "", num |-> v]

UpdateGameRequest(name, category, date, price) ==
    [name |-> name, category |-> category, released_date |-> date, price |-> price]

\* time.Parse("2006-01-02", s) on the date strings of the inputs
ParseDate(s) ==
    IF s = "2024-03-15" THEN [ok |-> TRUE, date |-> <<2024, 3, 15>>]
    ELSE IF s = "2023-01-01" THEN [ok |-> TRUE, date |-> <<2023, 1, 1>>]
    ELSE [ok |-> FALSE, date |-> ZeroDate]

\* the row of table games for a game: price is DECIMAL(10,2)
GameRow(g) ==
    [id |-> g.ID, name |-> g.Name, category |-> g.Category,
     released_date |-> g.ReleasedDate, price |-> ToDecimal2(g.Price),
     created_at |-> g.CreatedAt, updated_at |-> g.UpdatedAt]

\* Scan of a games row into models.Game
ScanGame(row) ==
    Game(row.id, row.name, row.category, row.released_date, row.price,
         row.created_at, row.updated_at)

GameResponse(op, code, id, error) ==
    [op |-> op, code |-> code, id |-> id, error |-> error, game |-> NoGame]

\* strconv.Atoi(c.Param("id"))
Atoi(q) == [ok |-> q.kind = "int", val |-> q.val]

\* the binding of CreateGameRequest: every field required, price min=0
BindCreateGameRequest(req) ==
    /\ req.name # ""
    /\ req.category # ""
    /\ req.released_date # ""
    /\ req.price # 0 /\ req.price >= 0

\* POST /api/v1/games
CreateGame(req) ==
    /\ UNCHANGED <<orders, order_items, tx, now, issued, deleted, resp, scan, analytics_vars, calls>>
    /\ IF ~BindCreateGameRequest(req)
       THEN /\ gresp' = GameResponse("create", 400, 0, "Invalid request")
            /\ UNCHANGED <<games, game_seq, game_deleted>>
       ELSE IF ~ParseDate(req.released_date).ok
       THEN /\ gresp' = GameResponse("create", 400, 0, "Failed to create game")
            /\ UNCHANGED <<games, game_seq, game_deleted>>
       ELSE \E ok \in BOOLEAN :
            IF ~ok
            THEN /\ gresp' = GameResponse("create", 400, 0, "Failed to create game")
                 /\ UNCHANGED <<games, game_seq, game_deleted>>
            ELSE LET g == Game(game_seq + 1, req.name, req.category,
                               ParseDate(req.released_date).date, req.price, now, now)
                 IN /\ game_seq < MaxGames
                    /\ game_seq' = game_seq + 1
                    /\ games' = games \cup {GameRow(g)}
                    /\ gresp' = [GameResponse("create", 201, g.ID, "") EXCEPT !.game = g]
                    /\ UNCHANGED game_deleted

\* GameRepository.GetGameByID: the error and the game
GetGameByIDResult(id, ok) ==
    IF ~ok THEN [err |-> "failed to get game", game |-> NoGame]
    ELSE IF \A r \in games : r.id # id THEN [err |-> "not found", game |-> NoGame]
    ELSE [err |-> "", game |-> ScanGame(CHOOSE r \in games : r.id = id)]

\* GET /api/v1/games/:id: every error of the service is answered with 404
GetGame(q) ==
    /\ UNCHANGED <<orders, order_items, tx, now, issued, deleted, resp, scan, analytics_vars, calls>>
    /\ UNCHANGED <<games, game_seq, game_deleted>>
    /\ IF ~Atoi(q).ok
       THEN gresp' = GameResponse("get", 400, 0, "Invalid game ID")
       ELSE \E ok \in BOOLEAN :
            LET r == GetGameByIDResult(Atoi(q).val, ok) IN
            IF r.err # ""
            THEN gresp' = GameResponse("get", 404, Atoi(q).val, "Game not found")
            ELSE gresp' = [GameResponse("get", 200, Atoi(q).val, "") EXCEPT !.game = r.game]

\* DELETE FROM games WHERE id = $1
DeleteGameRows_None(id) == games

DeleteGameRows(id) == {r \in games : r.id # id}

\* DELETE /api/v1/games/:id: every error of the service is answered with 404
DeleteGame(q) ==
    /\ UNCHANGED <<orders, order_items, tx, now, issued, deleted, resp, scan, analytics_vars, calls>>
    /\ UNCHANGED game_seq
    /\ IF ~Atoi(q).ok
       THEN /\ gresp' = GameResponse("delete", 400, 0, "Invalid game ID")
            /\ UNCHANGED <<games, game_deleted>>
       ELSE \E ok \in BOOLEAN :
            LET id == Atoi(q).val IN
            IF ~ok \/ \A r \in games : r.id # id
            THEN /\ gresp' = GameResponse("delete", 404, id, "Failed to delete game")
                 /\ UNCHANGED <<games, game_deleted>>
            ELSE /\ games' = DeleteGameRows(id)
                 /\ game_deleted' = game_deleted \cup {id}
                 /\ gresp' = GameResponse("delete", 200, id, "")

\* the checks of GameService.UpdateGame
ServiceUpdateGameValid(req) ==
    /\ req.released_date.set => ParseDate(req.released_date.str).ok
    /\ req.price.set => req.price.num >= 0

\* GameRepository.UpdateGame: currentGame after the supplied fields are copied
ApplyUpdates(g, req) ==
    [g EXCEPT !.Name = IF req.name.set THEN req.name.str ELSE @,
              !.Category = IF req.category.set THEN req.category.str ELSE @,
              !.ReleasedDate = IF req.released_date.set
                               THEN ParseDate(req.released_date.str).date ELSE @,
              !.Price = IF req.price.set THEN req.price.num ELSE @]

\* len(setParts) == 0
NoUpdates(req) ==
    ~req.name.set /\ ~req.category.set /\ ~req.released_date.set /\ ~req.price.set

\* PUT /api/v1/games/:id
UpdateGame(q, jsonOK, req) ==
    /\ UNCHANGED <<orders, order_items, tx, now, issued, deleted, resp, scan, analytics_vars, calls>>
    /\ UNCHANGED <<game_seq, game_deleted>>
    /\ IF ~Atoi(q).ok
       THEN /\ gresp' = GameResponse("update", 400, 0, "Invalid game ID")
            /\ UNCHANGED games
       ELSE IF ~jsonOK
       THEN /\ gresp' = GameResponse("update", 400, Atoi(q).val, "Invalid request")
            /\ UNCHANGED games
       ELSE IF ~ServiceUpdateGameValid(req)
       THEN /\ gresp' = GameResponse("update", 400, Atoi(q).val, "Failed to update game")
            /\ UNCHANGED games
       ELSE \E got \in BOOLEAN, ok \in BOOLEAN :
            LET id == Atoi(q).val
                cur == GetGameByIDResult(id, got)
                g == ApplyUpdates(cur.game, req)
                old == CHOOSE r \in games : r.id = id
                row == [GameRow(g) EXCEPT !.id = old.id, !.created_at = old.created_at,
                                          !.updated_at = now]
            IN IF cur.err # ""
               THEN /\ gresp' = GameResponse("update", 400, id, "Failed to update game")
                    /\ UNCHANGED games
               ELSE IF NoUpdates(req)
               THEN /\ gresp' = [GameResponse("update", 200, id, "") EXCEPT !.game = g]
                    /\ UNCHANGED games
               ELSE IF ~ok
               THEN /\ gresp' = GameResponse("update", 400, id, "Failed to update game")
                    /\ UNCHANGED games
               ELSE /\ games' = (games \ {old}) \cup {row}
                    /\ gresp' = [GameResponse("update", 200, id, "") EXCEPT
                                    !.game = [g EXCEPT !.UpdatedAt = row.updated_at]]

---------------------------------------------------------------------------
(* Analytics service: five tracking handlers over the ClickHouse tables    *)
(* page_views, clicks, scroll_depth, page_time and session_time.           *)

TrackKinds == {"pageview", "click", "scroll", "pagetime", "sessiontime"}

TrackResponse(op, kind, code) == [op |-> op, kind |-> kind, code |-> code]

\* a request body: json is "syntax" for a text that is not JSON, "type" for
\* JSON whose value does not fit the struct, "object" for an object with the
\* fields given (a field the object lacks has the zero value)
Body(json, session_id, page_url, n, start_time) ==
    [json |-> json, session_id |-> session_id, page_url |-> page_url, n |-> n,
     start_time |-> start_time]

\* the headers and the peer address of a request
Headers(forwarded, real_ip, remote) ==
    [forwarded |-> forwarded, real_ip |-> real_ip, remote |-> remote]

\* json.NewDecoder(r.Body).Decode(&v)
Decode_Lenient(body) ==
    IF body.json = "object" THEN [ok |-> TRUE, v |-> body]
    ELSE [ok |-> TRUE, v |-> Body("object", "", "", 0, "")]

Decode(body) ==
    IF body.json = "object" THEN [ok |-> TRUE, v |-> body]
    ELSE [ok |-> FALSE, v |-> Body("object", "", "", 0, "")]

\* getClientIP
getClientIP(h) ==
    IF h.forwarded # "" THEN h.forwarded
    ELSE IF h.real_ip # "" THEN h.real_ip
    ELSE h.remote

\* the row each handler inserts for a decoded value
TrackRow(kind, v, h) ==
    IF kind = "pageview"
    THEN [session_id |-> v.session_id, ip_address |-> getClientIP(h),
          page_url |-> v.page_url, page_load_time |-> v.n]
    ELSE IF kind = "click"
    THEN [session_id |-> v.session_id, page_url |-> v.page_url, click_x |-> v.n]
    ELSE IF kind = "scroll"
    THEN [session_id |-> v.session_id, page_url |-> v.page_url,
          max_scroll_percentage |-> v.n]
    ELSE IF kind = "pagetime"
    THEN [session_id |-> v.session_id, page_url |-> v.page_url, time_on_page |-> v.n]
    \* time.Parse(time.RFC3339, s) with the error dropped: the zero time on failure
    ELSE [session_id |-> v.session_id,
          start_time |-> IF v.start_time = "2024-01-01T00:00:00Z" THEN <<2024, 1, 1>>
                         ELSE ZeroDate,
          total_session_duration |-> v.n]

\* the common shape of the five handlers: decode, insert, answer
Track(kind, body, h) ==
    /\ UNCHANGED <<orders, order_items, tx, now, issued, deleted, resp, scan, game_vars, calls>>
    /\ UNCHANGED tracker
    /\ IF ~Decode(body).ok
       THEN /\ aresp' = TrackResponse("track", kind, 400)
            /\ UNCHANGED events
       ELSE \E ok \in BOOLEAN :
            IF ~ok
            THEN /\ aresp' = TrackResponse("track", kind, 500)
                 /\ UNCHANGED events
            ELSE /\ Len(events["pageview"]) + Len(events["click"]) + Len(events["scroll"])
                      + Len(events["pagetime"]) + Len(events["sessiontime"]) < MaxEvents
                 /\ events' = [events EXCEPT
                                  ![kind] = Append(@, TrackRow(kind, Decode(body).v, h))]
                 /\ aresp' = TrackResponse("track", kind, 200)

TrackPageView(body, h) == Track("pageview", body, h)

TrackClick(body, h) == Track("click", body, h)

TrackScrollDepth(body, h) == Track("scroll", body, h)

TrackPageTime(body, h) == Track("pagetime", body, h)

TrackSessionTime(body, h) == Track("sessiontime", body, h)

---------------------------------------------------------------------------
(* Front-end tracker (class LugxAnalytics): scroll depth of one page load. *)

\* the constructor: this.maxScrollPercentage = 0, and nothing sent yet
NewTracker == [page |-> 1, maxScrollPercentage |-> 0, scroll_reports |-> <<>>]

\* Math.round((scrollTop + windowHeight) / documentHeight * 100): halves round up
ScrollPercentage(scrollTop, windowHeight, documentHeight) ==
    (2 * (scrollTop + windowHeight) * 100 + documentHeight) \div (2 * documentHeight)

\* a new page load constructs a new tracker
PageLoad ==
    /\ tracker.page < MaxPageLoads
    /\ tracker' = [NewTracker EXCEPT !.page = tracker.page + 1]
    /\ UNCHANGED <<orders, order_items, tx, now, issued, deleted, resp, scan, game_vars,
                   events, aresp, calls>>

\* LugxAnalytics.trackScrollDepth, called by the scroll listener
trackScrollDepth(scrollTop, windowHeight, scrollHeight, clientHeight) ==
    LET documentHeight == IF scrollHeight > clientHeight THEN scrollHeight ELSE clientHeight
        scrollPercentage == ScrollPercentage(scrollTop, windowHeight, documentHeight)
        max == Min(scrollPercentage, 100)
    IN /\ IF scrollPercentage > tracker.maxScrollPercentage
          THEN /\ Len(tracker.scroll_reports) < MaxScrollReports
               /\ tracker' = [tracker EXCEPT
                                 !.maxScrollPercentage = max,
                                 !.scroll_reports = Append(tracker.scroll_reports, max)]
          ELSE UNCHANGED tracker
       /\ UNCHANGED <<orders, order_items, tx, now, issued, deleted, resp, scan, game_vars,
                      events, aresp, calls>>

---------------------------------------------------------------------------
(* Requests that run at the same time.  Each request is a goroutine of the  *)
(* HTTP server; its statements are atomic in the store and the statements   *)
(* of different requests interleave.                                        *)

\* the clients with a request in flight
Callers == {"a", "b"}

IdleCall == [op |-> "", pc |-> "idle", id |-> 0, status |-> "", code |-> 0,
             customer_id |-> "", limit |-> 0, offset |-> 0,
             orders |-> <<>>, k |-> 0, total |-> 0, status_counts |-> <<>>,
             game |-> NoGame,
             req |-> UpdateGameRequest(NilString, NilString, NilString, NilNumber)]

\* the response of a request is written: the call is over
Done(call, code) == [call EXCEPT !.pc = "done", !.code = code]

\* the client has the response and may send the next request
Return(c) ==
    /\ calls[c].pc = "done"
    /\ calls' = [calls EXCEPT ![c] = IdleCall]
    /\ UNCHANGED <<orders, order_items, tx, now, issued, deleted, resp, scan,
                   game_vars, analytics_vars>>

\* OrderHandler.UpdateOrderStatus and OrderService.UpdateOrderStatus up to the
\* call of the repository
BeginUpdateOrderStatus(c, id, status) ==
    /\ calls[c].pc = "idle"
    /\ LET call == [IdleCall EXCEPT !.op = "update", !.id = id, !.status = status] IN
       calls' = [calls EXCEPT ![c] =
                    IF ~BindUpdateOrderStatusRequest(status) THEN Done(call, 400)
                    ELSE IF id = 0 \/ ~ServiceStatusValid(status) THEN Done(call, 400)
                    ELSE [call EXCEPT !.pc = "exec"]]
    /\ UNCHANGED <<orders, order_items, tx, now, issued, deleted, resp, scan,
                   game_vars, analytics_vars>>

\* OrderRepository.UpdateOrderStatus: the UPDATE statement, and the response
ExecUpdateOrderStatus(c) ==
    /\ calls[c].pc = "exec" /\ calls[c].op = "update"
    /\ \E ok \in BOOLEAN :
          LET r == RepoUpdateOrderStatus(calls[c].id, calls[c].status, ok) IN
          /\ orders' = r.orders
          /\ calls' = [calls EXCEPT ![c] =
                          Done(@, IF r.err = "" THEN 200
                                  ELSE IF r.err = "order not found" THEN 404 ELSE 400)]
          /\ scan' = IF r.err = "" THEN NoScan ELSE scan
    /\ UNCHANGED <<order_items, tx, now, issued, deleted, resp, game_vars, analytics_vars>>

\* OrderHandler.DeleteOrder and OrderService.DeleteOrder up to the call of
\* the repository
BeginDeleteOrder(c, id) ==
    /\ calls[c].pc = "idle"
    /\ LET call == [IdleCall EXCEPT !.op = "delete", !.id = id] IN
       calls' = [calls EXCEPT ![c] =
                    IF id = 0 THEN Done(call, 500) ELSE [call EXCEPT !.pc = "exec"]]
    /\ UNCHANGED <<orders, order_items, tx, now, issued, deleted, resp, scan,
                   game_vars, analytics_vars>>

\* OrderRepository.DeleteOrder: the DELETE statement, and the response
ExecDeleteOrder(c) ==
    /\ calls[c].pc = "exec" /\ calls[c].op = "delete"
    /\ \E ok \in BOOLEAN :
          LET id == calls[c].id IN
          IF ~ok \/ ~IsUUID(id)
          THEN /\ calls' = [calls EXCEPT ![c] = Done(@, 500)]
               /\ UNCHANGED <<orders, order_items, deleted, scan>>
          ELSE IF \A o \in orders : o.id # id
          THEN /\ calls' = [calls EXCEPT ![c] = Done(@, 404)]
               /\ UNCHANGED <<orders, order_items, deleted, scan>>
          ELSE /\ orders' = {o \in orders : o.id # id}
               /\ order_items' = Cascade(order_items, id)
               /\ deleted' = deleted \cup {id}
               /\ scan' = NoScan
               /\ calls' = [calls EXCEPT ![c] = Done(@, 200)]
    /\ UNCHANGED <<tx, now, issued, resp, game_vars, analytics_vars>>

\* the rows of a result are scanned; the items of each are read next, or the
\* response is written when there is no row
RowsRead(call, rows) ==
    IF ScannedPrefix(rows) # rows THEN Done(call, 500)
    ELSE IF rows = <<>> THEN Done(call, 200)
    ELSE [call EXCEPT !.pc = "items", !.k = 0,
                      !.orders = [i \in 1..Len(rows) |->
                         [ID |-> rows[i].id, CustomerID |-> rows[i].customer_id,
                          TotalPrice |-> rows[i].total_price, Status |-> rows[i].status,
                          OrderDate |-> rows[i].order_date,
                          CreatedAt |-> rows[i].created_at,
                          UpdatedAt |-> rows[i].updated_at, Items |-> <<>>]]]

\* GET /api/v1/orders/:id up to and including SELECT ... FROM orders WHERE id
BeginGetOrderByID(c, id) ==
    /\ calls[c].pc = "idle"
    /\ \E ok \in BOOLEAN :
          LET call == [IdleCall EXCEPT !.op = "get", !.id = id] IN
          calls' = [calls EXCEPT ![c] =
                       IF id = 0 \/ ~ok \/ ~IsUUID(id) THEN Done(call, 500)
                       ELSE IF \A o \in orders : o.id # id THEN Done(call, 404)
                       ELSE RowsRead(call, <<CHOOSE o \in orders : o.id = id>>)]
    /\ UNCHANGED <<orders, order_items, tx, now, issued, deleted, resp, scan,
                   game_vars, analytics_vars>>

\* GET /api/v1/orders/customer/:customer_id up to and including the query
BeginGetOrdersByCustomerID(c, cust) ==
    /\ calls[c].pc = "idle"
    /\ \E ok \in BOOLEAN : \E s \in ByOrderDateDesc(WhereCustomer(cust)) :
          LET call == [IdleCall EXCEPT !.op = "bycustomer", !.customer_id = cust] IN
          calls' = [calls EXCEPT ![c] =
                       IF cust = "" \/ ~ok THEN Done(call, 500) ELSE RowsRead(call, s)]
    /\ UNCHANGED <<orders, order_items, tx, now, issued, deleted, resp, scan,
                   game_vars, analytics_vars>>

\* GET /api/v1/orders up to and including SELECT COUNT(*) FROM orders
BeginGetAllOrders(c, pageParam, sizeParam) ==
    /\ calls[c].pc = "idle"
    /\ \E ok \in BOOLEAN :
          LET page == ServicePage(HandlerPage(pageParam))
              pageSize == ServicePageSize(HandlerPageSize(sizeParam))
              call == [IdleCall EXCEPT !.op = "list", !.limit = pageSize,
                                       !.offset = Offset(page, pageSize)]
          IN calls' = [calls EXCEPT ![c] =
                          IF ~ok THEN Done(call, 500)
                          ELSE [call EXCEPT !.pc = "query", !.total = Cardinality(orders)]]
    /\ UNCHANGED <<orders, order_items, tx, now, issued, deleted, resp, scan,
                   game_vars, analytics_vars>>

\* GET /api/v1/orders/stats up to and including SELECT COUNT(*) FROM orders
BeginGetOrderStatistics(c) ==
    /\ calls[c].pc = "idle"
    /\ \E ok \in BOOLEAN :
          LET call == [IdleCall EXCEPT !.op = "stats", !.limit = StatsLimit] IN
          calls' = [calls EXCEPT ![c] =
                       IF ~ok THEN Done(call, 500)
                       ELSE [call EXCEPT !.pc = "query", !.total = Cardinality(orders)]]
    /\ UNCHANGED <<orders, order_items, tx, now, issued, deleted, resp, scan,
                   game_vars, analytics_vars>>

\* OrderRepository.GetAllOrders: SELECT ... ORDER BY order_date DESC LIMIT OFFSET
QueryOrders(c) ==
    /\ calls[c].pc = "query"
    /\ \E ok \in BOOLEAN : \E s \in ByOrderDateDesc(orders) :
          calls' = [calls EXCEPT ![c] =
                       IF ~ok \/ calls[c].offset < 0 THEN Done(@, 500)
                       ELSE RowsRead(@, LimitOffset(s, calls[c].limit, calls[c].offset))]
    /\ UNCHANGED <<orders, order_items, tx, now, issued, deleted, resp, scan,
                   game_vars, analytics_vars>>

\* one round of the row loop: getOrderItems of the next order; after the
\* last one the response is written (for the statistics, with the counts)
ReadOrderItems(c) ==
    /\ calls[c].pc = "items"
    /\ \E ok \in BOOLEAN :
          LET i == calls[c].k + 1
              read == [calls[c] EXCEPT !.k = i,
                                       !.orders[i].Items = getOrderItems(calls[c].orders[i].ID)]
          IN calls' = [calls EXCEPT ![c] =
                          IF ~ok THEN Done([@ EXCEPT !.orders = <<>>], 500)
                          ELSE IF i < Len(calls[c].orders) THEN read
                          ELSE IF calls[c].op = "stats"
                          THEN Done([read EXCEPT !.status_counts = StatusCounts(read.orders)], 200)
                          ELSE Done(read, 200)]
    /\ UNCHANGED <<orders, order_items, tx, now, issued, deleted, resp, scan,
                   game_vars, analytics_vars>>

\* PUT /api/v1/games/:id up to and including r.GetGameByID(id) and the copy
\* of the supplied fields into currentGame
BeginUpdateGame(c, q, req) ==
    /\ calls[c].pc = "idle"
    /\ \E ok \in BOOLEAN :
          LET id == Atoi(q).val
              cur == GetGameByIDResult(id, ok)
              call == [IdleCall EXCEPT !.op = "updategame", !.id = id, !.req = req]
          IN calls' = [calls EXCEPT ![c] =
                          IF ~Atoi(q).ok \/ ~ServiceUpdateGameValid(req) \/ cur.err # ""
                          THEN Done(call, 400)
                          ELSE IF NoUpdates(req)
                          THEN Done([call EXCEPT !.game = cur.game], 200)
                          ELSE [call EXCEPT !.pc = "exec",
                                            !.game = ApplyUpdates(cur.game, req)]]
    /\ UNCHANGED <<orders, order_items, tx, now, issued, deleted, resp, scan,
                   game_vars, analytics_vars>>

\* UPDATE games SET <the supplied columns>, updated_at = $n WHERE id = $m on
\* the row as it is now: the columns not supplied keep their stored value
UpdatedColumns(row, g, req, t) ==
    [row EXCEPT !.name = IF req.name.set THEN GameRow(g).name ELSE @,
                !.category = IF req.category.set THEN GameRow(g).category ELSE @,
                !.released_date = IF req.released_date.set
                                  THEN GameRow(g).released_date ELSE @,
                !.price = IF req.price.set THEN GameRow(g).price ELSE @,
                !.updated_at = t]

\* the UPDATE ... RETURNING updated_at of GameRepository.UpdateGame, and the
\* response; with no row the Scan fails with sql.ErrNoRows
ExecUpdateGame(c) ==
    /\ calls[c].pc = "exec" /\ calls[c].op = "updategame"
    /\ \E ok \in BOOLEAN :
          LET id == calls[c].id IN
          IF ~ok \/ \A r \in games : r.id # id
          THEN /\ calls' = [calls EXCEPT ![c] = Done([@ EXCEPT !.game = NoGame], 400)]
               /\ UNCHANGED games
          ELSE LET old == CHOOSE r \in games : r.id = id
                   row == UpdatedColumns(old, calls[c].game, calls[c].req, now)
               IN /\ games' = (games \ {old}) \cup {row}
                  /\ calls' = [calls EXCEPT ![c] =
                                  Done([@ EXCEPT !.game.UpdatedAt = row.updated_at], 200)]
    /\ UNCHANGED <<orders, order_items, tx, now, issued, deleted, resp, scan,
                   game_seq, game_deleted, gresp, analytics_vars>>

---------------------------------------------------------------------------

Init ==
    /\ orders = {}
    /\ order_items = {}
    /\ tx = IdleTx
    /\ now = 0
    /\ issued = <<>>
    /\ deleted = {}
    /\ resp = Response("none", 0)
    /\ scan = NoScan
    /\ games = {}
    /\ game_seq = 0
    /\ game_deleted = {}
    /\ gresp = GameResponse("none", 0, 0, "")
    /\ events = [k \in TrackKinds |-> <<>>]
    /\ aresp = TrackResponse("none", "", 0)
    /\ calls = [c \in Callers |-> IdleCall]
    /\ tracker = NewTracker

\* one create request over the whole input sets, on the empty store
FirstCreateOrder ==
    /\ resp.op = "none"
    /\ tx.pc = "idle"
    /\ \E r \in AllRequests : CreateOrder(r, 1)

NextCreate == FirstCreateOrder \/ InsertOrder \/ InsertOrderItem \/ Commit

SpecCreate == Init /\ [][NextCreate]_vars

\* the inputs of the requests that address one order
OrderIDInputs(maxOrders) == (1..(maxOrders + 1)) \cup {0 - 1}

StatusInputs == {"shipped", "invalid_status", ""}

\* the lifecycle of orders: create, update status, delete, get
Next ==
    \/ \E r \in LifeRequests : CreateOrder(r, MaxOrders)
    \/ InsertOrder
    \/ InsertOrderItem
    \/ Commit
    \/ \E id \in OrderIDInputs(MaxOrders), st \in StatusInputs : UpdateOrderStatus(id, st)
    \/ \E id \in OrderIDInputs(MaxOrders) : DeleteOrder(id)
    \/ \E id \in OrderIDInputs(MaxOrders) : GetOrderByID(id)

Spec == Init /\ [][Next]_vars

\* status updates over time: orders are created and their status is updated
\* while the clock advances
\* the create request of the status specification
StatusRequests == {CreateOrderRequest("c1", <<LifeItemRequest>>, FALSE)}

NextStatus ==
    \/ \E r \in StatusRequests : CreateOrder(r, MaxOrders)
    \/ InsertOrder
    \/ InsertOrderItem
    \/ Commit
    \/ Tick
    \/ \E id \in OrderIDInputs(MaxOrders), st \in StatusInputs : UpdateOrderStatus(id, st)

SpecStatus == Init /\ [][NextStatus]_vars

\* the inputs of the listing requests
CustomerInputs == {"", "c1", "c2", "c3"}

PageParams == {Absent} \cup {Number(v) : v \in 0..(MaxListOrders + 1)}

SizeParams == {Absent, Number(1), Number(2)}

\* listing: orders are created, and listed in pages and by customer
NextList ==
    \/ \E r \in ListRequests : CreateOrder(r, MaxListOrders)
    \/ InsertOrder
    \/ InsertOrderItem
    \/ Commit
    \/ Tick
    \/ \E c \in CustomerInputs : GetOrdersByCustomerID(c)
    \/ \E p \in PageParams, z \in SizeParams : GetAllOrders(p, z)

SpecList == Init /\ [][NextList]_vars

\* a client walks through the pages of GET /orders while orders are created
NextPages ==
    \/ \E r \in ListRequests : CreateOrder(r, MaxListOrders)
    \/ InsertOrder
    \/ InsertOrderItem
    \/ Commit
    \/ Tick
    \/ \E p \in PageParams, z \in SizeParams : WalkPage(p, z)

SpecPages == Init /\ [][NextPages]_vars

\* one create request over the whole input sets, and reads of the order
NextRead ==
    \/ FirstCreateOrder
    \/ InsertOrder
    \/ InsertOrderItem
    \/ Commit
    \/ \E id \in OrderIDInputs(1) : GetOrderByID(id)

SpecRead == Init /\ [][NextRead]_vars

NextStats ==
    \/ \E r \in StatusRequests : CreateOrder(r, MaxOrders)
    \/ InsertOrder
    \/ InsertOrderItem
    \/ Commit
    \/ \E id \in 1..MaxOrders, st \in {"delivered", "shipped"} : UpdateOrderStatus(id, st)
    \/ GetOrderStatistics

SpecStats == Init /\ [][NextStats]_vars

\* status transitions: one order is created and its status is set to every
\* value of the service's validStatuses, in every order
NextTransitions ==
    \/ \E r \in StatusRequests : CreateOrder(r, 1)
    \/ InsertOrder
    \/ InsertOrderItem
    \/ Commit
    \/ Tick
    \/ \E id \in OrderIDInputs(1), st \in validStatuses : UpdateOrderStatus(id, st)

SpecTransitions == Init /\ [][NextTransitions]_vars

\* the page and page_size parameters of GET /orders over the range of int
WidePageParams ==
    {Absent, NotANumber} \cup
    {Number(v) : v \in {0 - MaxInt - 1, 0 - 1, 0, 1, 2, 3, MaxInt}}

WideSizeParams ==
    {Absent, NotANumber} \cup
    {Number(v) : v \in {0 - MaxInt - 1, 0 - 1, 0, 1, 2, MaxPageSize, MaxPageSize + 1, MaxInt}}

\* the callers of OrderRepository.GetAllOrders: the list and the statistics
NextPaging ==
    \/ \E r \in ListRequests : CreateOrder(r, MaxListOrders)
    \/ InsertOrder
    \/ InsertOrderItem
    \/ Commit
    \/ \E p \in WidePageParams, z \in WideSizeParams : GetAllOrders(p, z)
    \/ GetOrderStatistics

SpecPaging == Init /\ [][NextPaging]_vars

NextOrdering ==
    \/ \E r \in {CreateOrderRequest("c1", <<LifeItemRequest,
                                            CreateOrderItemRequest(0, "A", 5, 2)>>, FALSE)} :
          CreateOrder(r, MaxListOrders)
    \/ InsertOrder
    \/ InsertOrderItem
    \/ Commit
    \/ Tick
    \/ \E c \in {"c1", "c2"} : GetOrdersByCustomerID(c)
    \/ \E p \in {Absent, Number(2)}, z \in {Absent, Number(1)} : GetAllOrders(p, z)

SpecOrdering == Init /\ [][NextOrdering]_vars

NextRace ==
    \/ \E r \in StatusRequests : CreateOrder(r, 1)
    \/ InsertOrder
    \/ InsertOrderItem
    \/ Commit
    \/ \E c \in Callers, id \in 1..2, st \in {"shipped", "delivered"} :
          BeginUpdateOrderStatus(c, id, st)
    \/ \E c \in Callers : ExecUpdateOrderStatus(c)
    \/ \E c \in Callers, id \in 1..2 : BeginDeleteOrder(c, id)
    \/ \E c \in Callers : ExecDeleteOrder(c)
    \/ \E c \in Callers : Return(c)

SpecRace == Init /\ [][NextRace]_vars

\* a client reads orders while another client deletes them
NextReadRace ==
    \/ \E r \in StatusRequests : CreateOrder(r, MaxOrders)
    \/ InsertOrder
    \/ InsertOrderItem
    \/ Commit
    \/ \E id \in 1..MaxOrders : BeginGetOrderByID("a", id)
    \/ BeginGetOrdersByCustomerID("a", "c1")
    \/ BeginGetAllOrders("a", Absent, Absent)
    \/ QueryOrders("a")
    \/ ReadOrderItems("a")
    \/ \E id \in 1..MaxOrders : BeginDeleteOrder("b", id)
    \/ ExecDeleteOrder("b")
    \/ \E c \in Callers : Return(c)

SpecReadRace == Init /\ [][NextReadRace]_vars

\* the positions and sizes the scroll listener meets: the viewport is 2 or 3
\* high in a document of 4 or 8, and the scroll position may pass the end
\* of the document (elastic overscroll)
ScrollTops == 0..3

WindowHeights == {2, 3}

ScrollHeights == {4, 8}

NextScroll ==
    \/ PageLoad
    \/ \E top \in ScrollTops, wh \in WindowHeights, sh \in ScrollHeights :
          trackScrollDepth(top, wh, sh, 2)

SpecScroll == Init /\ [][NextScroll]_vars

NextGameRace ==
    \/ CreateGame(CreateGameRequest("n1", "c1", "2024-03-15", 10))
    \/ \E c \in Callers, id \in 1..MaxGames,
          req \in {UpdateGameRequest(PtrString("n2"), NilString, NilString, NilNumber),
                   UpdateGameRequest(NilString, PtrString("c2"), NilString, NilNumber),
                   UpdateGameRequest(NilString, NilString, NilString, PtrNumber(20))} :
          BeginUpdateGame(c, Number(id), req)
    \/ \E c \in Callers : ExecUpdateGame(c)
    \/ \E id \in 1..MaxGames : DeleteGame(Number(id))
    \/ \E c \in Callers : Return(c)

SpecGameRace == Init /\ [][NextGameRace]_vars

\* a client asks for the statistics while orders are created and deleted
NextStatsRace ==
    \/ \E r \in StatusRequests : CreateOrder(r, MaxOrders)
    \/ InsertOrder
    \/ InsertOrderItem
    \/ Commit
    \/ GetOrderStatistics
    \/ BeginGetOrderStatistics("a")
    \/ QueryOrders("a")
    \/ ReadOrderItems("a")
    \/ \E id \in 1..MaxOrders : BeginDeleteOrder("b", id)
    \/ ExecDeleteOrder("b")
    \/ \E c \in Callers : Return(c)

SpecStatsRace == Init /\ [][NextStatsRace]_vars

\* listing a table that also holds rows another writer inserted
NextDecode ==
    \/ \E r \in ListRequests : CreateOrder(r, MaxListOrders)
    \/ InsertOrder
    \/ InsertOrderItem
    \/ Commit
    \/ \E c \in CustomerInputs \ {""} : InsertForeignOrder(c, MaxListOrders)
    \/ \E c \in CustomerInputs : GetOrdersByCustomerID(c)
    \/ \E p \in PageParams, z \in SizeParams : GetAllOrders(p, z)

SpecDecode == Init /\ [][NextDecode]_vars

\* the game service: games are created, read and deleted while time passes
GameIDParams == {NotANumber} \cup {Number(v) : v \in 1..(MaxGames + 1)}

NextGames ==
    \/ \E d \in {"2024-03-15", "15/03/2024"}, pr \in {0, 10} :
          CreateGame(CreateGameRequest("n1", "c1", d, pr))
    \/ \E q \in GameIDParams : GetGame(q)
    \/ \E q \in GameIDParams : DeleteGame(q)
    \/ Tick

SpecGames == Init /\ [][NextGames]_vars

\* the game service: one game is created with a price in whole cents and
\* games are updated
GameUpdateRequests ==
    {UpdateGameRequest(NilString, NilString, NilString, NilNumber),
     UpdateGameRequest(PtrString("n2"), NilString, NilString, NilNumber),
     UpdateGameRequest(NilString, PtrString("c2"), NilString, NilNumber),
     UpdateGameRequest(NilString, NilString, PtrString("2023-01-01"), NilNumber),
     UpdateGameRequest(NilString, NilString, NilString, PtrNumber(5)),
     UpdateGameRequest(NilString, NilString, NilString, PtrNumber(20)),
     UpdateGameRequest(PtrString("n2"), NilString, NilString, PtrNumber(20)),
     UpdateGameRequest(PtrString("n2"), PtrString("c2"), PtrString("2023-01-01"), PtrNumber(20)),
     UpdateGameRequest(NilString, NilString, PtrString("15/03/2024"), NilNumber),
     UpdateGameRequest(NilString, NilString, NilString, PtrNumber(0 - 10))}

NextGameUpdate ==
    \/ CreateGame(CreateGameRequest("n1", "c1", "2024-03-15", 10))
    \/ \E q \in GameIDParams, req \in GameUpdateRequests : UpdateGame(q, TRUE, req)
    \/ \E q \in GameIDParams :
          UpdateGame(q, FALSE, UpdateGameRequest(NilString, NilString, NilString, NilNumber))
    \/ Tick

SpecGameUpdate == Init /\ [][NextGameUpdate]_vars

\* the analytics service: tracking requests of every kind
TrackBodies ==
    {Body("object", "s1", "/games", 1, "2024-01-01T00:00:00Z"),
     Body("object", "s1", "/games", 1, "yesterday"),
     Body("syntax", "", "", 0, ""),
     Body("type", "", "", 0, "")}

TrackHeaders ==
    {Headers("", "", "10.0.0.1:5000"), Headers("2.2.2.2", "1.1.1.1", "10.0.0.1:5000")}

NextTrack ==
    \/ \E body \in TrackBodies, h \in TrackHeaders : TrackPageView(body, h)
    \/ \E body \in TrackBodies, h \in TrackHeaders : TrackClick(body, h)
    \/ \E body \in TrackBodies, h \in TrackHeaders : TrackScrollDepth(body, h)
    \/ \E body \in TrackBodies, h \in TrackHeaders : TrackPageTime(body, h)
    \/ \E body \in TrackBodies, h \in TrackHeaders : TrackSessionTime(body, h)

SpecTrack == Init /\ [][NextTrack]_vars

---------------------------------------------------------------------------
(* Properties *)

Stored(id) == \E o \in orders : o.id = id

ItemsOf(id) == {r \in order_items : r.order_id = id}

\* the store failed the request: Begin, an INSERT or Commit returned an error
StoreFailures ==
    {"failed to begin transaction", "failed to insert order",
     "failed to insert order item", "commit"}

RECURSIVE SumPriceQuantity(_)
SumPriceQuantity(items) ==
    IF items = <<>> THEN 0
    ELSE Head(items).price * Head(items).quantity + SumPriceQuantity(Tail(items))

C2_Atomic ==
    /\ \A id \in DOMAIN issued :
          IF Stored(id) THEN Cardinality(ItemsOf(id)) = issued[id]
          ELSE ItemsOf(id) = {}
    /\ tx.pc # "idle" => ~Stored(tx.order.ID) /\ ItemsOf(tx.order.ID) = {}
    /\ (resp.op = "create" /\ resp.code # 201 /\ resp.details \in StoreFailures) =>
          ~Stored(resp.id) /\ ItemsOf(resp.id) = {}

C2_Witness ==
    /\ resp.op = "create" /\ resp.code # 201
    /\ resp.details = "commit"
    /\ resp.id \in DOMAIN issued /\ issued[resp.id] = 2
    /\ orders # {}

\* a request without customer_id or without items
C3_Invalid(r) == r.customer_id = "" \/ r.nil \/ Len(r.items) = 0

\* C3: a create request whose customer_id is missing or empty, or whose items
\* list is missing or empty, is answered with 400, and the tables orders and
\* order_items are unchanged by it.
C3_InvalidRejected ==
    [][\A r \in LifeRequests :
          (C3_Invalid(r) /\ CreateOrder(r, MaxOrders)) =>
              /\ resp'.op = "create" /\ resp'.code = 400 /\ resp'.req = r
              /\ orders' = orders /\ order_items' = order_items
              /\ tx' = tx /\ issued' = issued]_vars

C3_Witness ==
    /\ resp.op = "create" /\ resp.code = 400
    /\ resp.req.customer_id = "" /\ Len(resp.req.items) >= 1
    /\ orders # {} /\ order_items # {}

\* an item the service must refuse
C4_Offending(it) == it.quantity <= 0 \/ it.price < 0

\* C4: a create request with an item of quantity <= 0 or price < 0, at any
\* position, is rejected as a whole: no transaction is begun for it, no order
\* row and no item row exists afterwards, and (the request being otherwise
\* valid) the error names the first such item.
C4_OffendingItemRejected ==
    (resp.op = "create" /\ \E i \in 1..Len(resp.req.items) : C4_Offending(resp.req.items[i])) =>
        /\ resp.code = 400
        /\ resp.id = 0
        /\ orders = {} /\ order_items = {} /\ tx = IdleTx
        /\ resp.req.customer_id # "" =>
              \E i \in 1..Len(resp.req.items) :
                 /\ C4_Offending(resp.req.items[i])
                 /\ \A j \in 1..(i - 1) : ~C4_Offending(resp.req.items[j])
                 /\ resp.game = resp.req.items[i].game_name
                 /\ resp.details \in {"quantity must be greater than 0 for game",
                                      "price cannot be negative for game"}

C4_Witness ==
    /\ resp.op = "create" /\ resp.code = 400
    /\ Len(resp.req.items) = 2
    /\ ~C4_Offending(resp.req.items[1])
    /\ resp.req.items[2].price < 0 /\ resp.req.items[2].quantity >= 1
    /\ resp.req.items[1].game_name # resp.req.items[2].game_name
    /\ resp.game = resp.req.items[2].game_name

\* a request the interface accepts according to its constraints
C5_Valid(r) ==
    /\ r.customer_id # ""
    /\ ~r.nil
    /\ Len(r.items) >= 1
    /\ \A i \in 1..Len(r.items) : r.items[i].quantity >= 1 /\ r.items[i].price >= 0

C6_Enumeration == {"pending", "confirmed", "processing", "shipped", "delivered", "cancelled"}

\* a status update request of the inputs takes this step
C6_InvalidUpdateStep(id, st) == st \notin C6_Enumeration /\ UpdateOrderStatus(id, st)

\* C6: UpdateOrderStatus with a status that is not one of the six values
\* fails, in the service (whatever the id and the state of the store) and at
\* the HTTP interface (400), and the stored rows, their status and
\* updated_at included, are unchanged.
C6_InvalidStatusRejected ==
    /\ [](\A id \in OrderIDInputs(MaxOrders), st \in StatusInputs \ C6_Enumeration, ok \in BOOLEAN :
             /\ ServiceUpdateOrderStatus(id, st, ok).err # ""
             /\ ServiceUpdateOrderStatus(id, st, ok).orders = orders)
    /\ [][\A id \in OrderIDInputs(MaxOrders), st \in StatusInputs :
             C6_InvalidUpdateStep(id, st) =>
                 /\ resp'.op = "update" /\ resp'.code = 400
                 /\ orders' = orders /\ order_items' = order_items]_vars

C6_Witness ==
    /\ resp.op = "update" /\ resp.code = 400 /\ resp.status = "invalid_status"
    /\ \E o \in orders : o.id = resp.id /\ o.status = "shipped" /\ o.updated_at < now
    /\ \E o \in orders : o.id # resp.id

\* C7: after DeleteOrder succeeded for an id, the order row and every item
\* row of that order are gone and GetOrder(id) answers 404; in every state
\* every stored item belongs to a stored order and every stored order has at
\* least one item.
C7_DeleteRemoves ==
    /\ \A r \in order_items : Stored(r.order_id)
    /\ \A o \in orders : ItemsOf(o.id) # {}
    /\ \A id \in deleted :
          /\ ~Stored(id) /\ ItemsOf(id) = {}
          /\ GetOrderByIDResult(id, TRUE).code = 404
    /\ (resp.op = "delete" /\ resp.code = 200) => resp.id \in deleted
    /\ (resp.op = "get" /\ resp.id \in deleted /\ resp.details # "failed to get order") =>
          resp.code = 404

C7_Witness ==
    /\ resp.op = "get" /\ resp.code = 404 /\ resp.id \in deleted
    /\ issued[resp.id] = 2
    /\ orders # {}

\* the ids of the orders a list response shows
C8_Shown == {resp.orders[i].ID : i \in 1..Len(resp.orders)}

\* C8: ListOrdersByCustomer(c) returns exactly the stored orders whose
\* customer_id is c, each once and with its own items, with 200 also when
\* there is none, and total is the number of orders returned.
C8_ByCustomerExact ==
    (resp.op = "bycustomer" /\ resp.customer_id # "" /\ resp.details # "failed to query orders") =>
        /\ resp.code = 200
        /\ C8_Shown = {o.id : o \in {q \in orders : q.customer_id = resp.customer_id}}
        /\ Len(resp.orders) = Cardinality(C8_Shown)
        /\ resp.total = Len(resp.orders)
        /\ \A i \in 1..Len(resp.orders) :
              /\ resp.orders[i].CustomerID = resp.customer_id
              /\ {resp.orders[i].Items[k].ID : k \in 1..Len(resp.orders[i].Items)}
                    = {r.id : r \in ItemsOf(resp.orders[i].ID)}
              /\ Len(resp.orders[i].Items) = Cardinality(ItemsOf(resp.orders[i].ID))
              /\ Len(resp.orders[i].Items) >= 1

C8_Witness ==
    /\ resp.op = "bycustomer" /\ resp.code = 200 /\ resp.customer_id = "c1"
    /\ Len(resp.orders) >= 1
    /\ \E o \in orders : o.customer_id = "c2"

\* C9: with a fixed page_size and no write between the calls, the pages 1, 2,
\* ... of ListOrders are pairwise disjoint, and once they reach the end their
\* union is the set of all stored orders, equal order dates included.
C9_PagesPartition ==
    /\ \A i, j \in 1..Len(scan.pages) : i < j => scan.pages[i] \cap scan.pages[j] = {}
    /\ (scan.size > 0 /\ Len(scan.pages) * scan.size >= Cardinality(orders)) =>
          UNION {scan.pages[i] : i \in 1..Len(scan.pages)} = {o.id : o \in orders}

\* C10: the total of a ListOrders response is the number of stored orders,
\* for every page and page size, pages beyond the last order included.
C10_TotalIsCount ==
    (resp.op = "list" /\ resp.code = 200) =>
        /\ resp.total = Cardinality(orders)
        /\ Len(resp.orders) <= resp.total

C10_Witness ==
    /\ resp.op = "list" /\ resp.code = 200
    /\ resp.orders = <<>>
    /\ resp.page >= 2
    /\ resp.total >= 1 /\ resp.total = Cardinality(orders)

\* C11: a GetOrder(id) that follows a successful UpdateOrderStatus(id, s),
\* with no request answered in between, returns the order with status s.
C11_GetAfterUpdate ==
    [][\A id \in OrderIDInputs(MaxOrders) :
          (/\ resp.op = "update" /\ resp.code = 200 /\ resp.id = id
           /\ GetOrderByID(id)
           /\ resp'.details # "failed to get order")
          => /\ resp'.op = "get" /\ resp'.code = 200
             /\ resp'.order.ID = id
             /\ resp'.order.Status = resp.status]_vars

C11_Witness ==
    /\ resp.op = "get" /\ resp.code = 200
    /\ resp.order.Status = "shipped"
    /\ \E o \in orders : o.id = resp.id /\ o.status = "shipped"
    /\ \E o \in orders : o.id # resp.id /\ o.status = "pending"

\* C12: a GetOrder(id) that follows the 201 of a create, with no request
\* answered in between, returns the order the create returned: same id and
\* customer_id, status pending, same total_price and the same items (game_id,
\* game_name, price, quantity, subtotal, order_id = id).
C12_GetReturnsCreated ==
    [][\A id \in OrderIDInputs(1) :
          (/\ resp.op = "create" /\ resp.code = 201 /\ resp.id = id
           /\ GetOrderByID(id)
           /\ resp'.details # "failed to get order")
          => /\ resp'.op = "get" /\ resp'.code = 200
             /\ resp'.order.ID = id
             /\ resp'.order.CustomerID = resp.order.CustomerID
             /\ resp'.order.Status = "pending"
             /\ resp'.order.TotalPrice = resp.order.TotalPrice
             /\ Len(resp'.order.Items) = Len(resp.order.Items)
             /\ Range(resp'.order.Items) = Range(resp.order.Items)
             /\ \A i \in 1..Len(resp'.order.Items) : resp'.order.Items[i].OrderID = id]_vars

\* C13: GET /api/v1/orders/{id} answers 404 for every id that identifies no
\* stored order, ids never issued and strings that are not UUIDs included;
\* with the store available it never answers 500 for such an id.
C13_AbsentIs404 ==
    (resp.op = "get" /\ ~Stored(resp.id) /\ resp.details # "failed to get order") =>
        resp.code = 404

\* C14: UpdateOrderStatus with a valid status and DeleteOrder on an id that
\* identifies no stored order, deleted ids included, answer 404 and leave
\* every stored order and item unchanged.
C14_AbsentNotFound ==
    [][\A id \in OrderIDInputs(MaxOrders) :
          /\ (/\ ~Stored(id)
              /\ \E st \in StatusInputs \cap C6_Enumeration : UpdateOrderStatus(id, st)
              /\ resp'.details # "failed to update order status")
             => /\ resp'.op = "update" /\ resp'.code = 404
                /\ orders' = orders /\ order_items' = order_items
          /\ (/\ ~Stored(id)
              /\ DeleteOrder(id)
              /\ resp'.details # "failed to delete order")
             => /\ resp'.op = "delete" /\ resp'.code = 404
                /\ orders' = orders /\ order_items' = order_items]_vars

\* C15: a create request that passed validation and then met a failure of
\* the store (begin, insert or commit) is answered with 500, not with the 400
\* of a validation error.
C15_StoreFailureIs500 ==
    (resp.op = "create" /\ resp.details \in StoreFailures) => resp.code = 500

\* the count a statistics response gives for a status
C16_Count(st) ==
    IF st \in DOMAIN resp.status_counts THEN resp.status_counts[st] ELSE 0

RECURSIVE C16_Sum(_)
C16_Sum(rows) ==
    IF rows = {} THEN 0
    ELSE LET r == CHOOSE q \in rows : TRUE IN r.total_price + C16_Sum(rows \ {r})

\* C16: GetStatistics returns total_orders = the number of stored orders,
\* total_revenue = the sum of total_price over exactly the delivered orders,
\* and for each status the number of stored orders with that status.
C16_StatisticsExact ==
    (resp.op = "stats" /\ resp.code = 200) =>
        /\ resp.total = Cardinality(orders)
        /\ resp.revenue = C16_Sum({o \in orders : o.status = "delivered"})
        /\ \A st \in C6_Enumeration :
              C16_Count(st) = Cardinality({o \in orders : o.status = st})

\* C20: in every reachable state the status of every stored order is one of
\* the six values, and the status of an order is pending from its creation
\* until its first successful status update: a step leaves an order with a
\* status other than pending only if the order had that status before or the
\* step is an update answered 200 for that order and that status.
C20_StatusEnumeration ==
    /\ [](\A o \in orders : o.status \in C6_Enumeration)
    /\ [][\A o \in orders' :
             o.status # "pending" =>
                \/ \E p \in orders : p.id = o.id /\ p.status = o.status
                \/ /\ resp'.op = "update" /\ resp'.code = 200
                   /\ resp'.id = o.id /\ resp'.status = o.status]_vars

C20_Witness ==
    /\ resp.op = "update" /\ resp.code = 400 /\ resp.status = "invalid_status"
    /\ \E o \in orders : o.id = resp.id /\ o.status = "pending"
    /\ \E o \in orders : o.id # resp.id /\ o.status = "shipped"

\* C17: in the game service, after DeleteGame succeeded for an id no game
\* with that id is stored and GET /api/v1/games/{id} answers 404; DeleteGame
\* on an id with no stored game answers 404 and leaves the games unchanged.
C17_DeletedGameGone ==
    /\ [](\A id \in game_deleted : \A r \in games : r.id # id)
    /\ []((gresp.op = "get" /\ gresp.id \in game_deleted) => gresp.code = 404)
    /\ [][\A q \in GameIDParams :
             (/\ Atoi(q).ok
              /\ \A r \in games : r.id # Atoi(q).val
              /\ DeleteGame(q))
             => /\ gresp'.op = "delete" /\ gresp'.code = 404
                /\ games' = games]_vars

C17_Witness ==
    /\ gresp.op = "get" /\ gresp.code = 404
    /\ gresp.id \in game_deleted
    /\ games # {}

\* the stored game with an id, before and after a step
C18_Old(id) == CHOOSE r \in games : r.id = id

C18_New(id) == CHOOSE r \in games' : r.id = id

\* C18: in the game service a successful UpdateGame changes only supplied
\* fields and updated_at of the stored game, leaves its unsupplied fields,
\* id and created_at and every other game unchanged, and returns a game
\* equal to the stored row; an update that supplies no field writes nothing.
C18_UpdateFrame ==
    [][\A q \in GameIDParams, req \in GameUpdateRequests :
          (UpdateGame(q, TRUE, req) /\ gresp'.code = 200) =>
             LET id == Atoi(q).val IN
             /\ \E r \in games : r.id = id
             /\ Cardinality({r \in games' : r.id = id}) = 1
             /\ {r \in games' : r.id # id} = {r \in games : r.id # id}
             /\ C18_New(id).created_at = C18_Old(id).created_at
             /\ ~req.name.set => C18_New(id).name = C18_Old(id).name
             /\ ~req.category.set => C18_New(id).category = C18_Old(id).category
             /\ ~req.released_date.set =>
                   C18_New(id).released_date = C18_Old(id).released_date
             /\ ~req.price.set => C18_New(id).price = C18_Old(id).price
             /\ NoUpdates(req) => games' = games
             /\ gresp'.game = ScanGame(C18_New(id))]_vars

C21_NoTransitionGuard ==
    [][\A id \in OrderIDInputs(1), s \in C6_Enumeration, t \in C6_Enumeration :
          (/\ \E o \in orders : o.id = id /\ o.status = s
           /\ UpdateOrderStatus(id, t)
           /\ resp'.details # "failed to update order status")
          => /\ resp'.code = 200
             /\ \E o \in orders' : o.id = id /\ o.status = t]_vars

C21_Witness ==
    /\ resp.op = "update" /\ resp.code = 200 /\ resp.status = "pending"
    /\ \E o \in orders :
          o.id = resp.id /\ o.status = "pending" /\ o.updated_at > o.created_at

\* C22: an UpdateOrderStatus(id, s) answered 200 changes only status and
\* updated_at of the order id: its id, customer_id, total_price, order_date
\* and created_at, every item row and every other order are unchanged, and
\* updated_at after the update is not earlier than created_at.
C22_UpdateFrame ==
    [][\A id \in OrderIDInputs(MaxOrders), st \in StatusInputs :
          (/\ resp'.op = "update" /\ resp'.code = 200
           /\ resp'.id = id /\ resp'.status = st
           /\ UpdateOrderStatus(id, st))
          => /\ order_items' = order_items
             /\ {o \in orders' : o.id # id} = {o \in orders : o.id # id}
             /\ \E old \in orders, new \in orders' :
                   /\ old.id = id
                   /\ new = [old EXCEPT !.status = st, !.updated_at = new.updated_at]
                   /\ new.updated_at >= new.created_at
                   /\ {o \in orders' : o.id = id} = {new}]_vars

C22_Witness ==
    /\ resp.op = "update" /\ resp.code = 200
    /\ \E o \in orders :
          o.id = resp.id /\ o.status = "shipped" /\ o.updated_at > o.created_at
    /\ \E o \in orders : o.id # resp.id /\ o.status = "pending"
    /\ \E r \in order_items : r.order_id = resp.id

\* the effective page and page size of the claim C23 for integer parameters
C23_Page(p) == IF p > 1 THEN p ELSE 1

C23_PageSize(z) == IF z >= 1 /\ z <= 100 THEN z ELSE 10

\* C23: every call of the store's list-all operation, by the list and by
\* every other caller, passes a limit in [1,100] and an offset >= 0; for all
\* integers page and page_size given to the list, the limit is the effective
\* page size, the offset is (effective page - 1) * effective page size, and a
\* 200 response echoes the effective page and page size.
C23_LimitAndOffset ==
    /\ [](resp.op \in {"list", "stats"} =>
             resp.limit >= 1 /\ resp.limit <= 100 /\ resp.offset >= 0)
    /\ [][\A p \in WidePageParams, z \in WideSizeParams :
             (/\ resp'.op = "list"
              /\ p.kind = "int" /\ z.kind = "int"
              /\ GetAllOrders(p, z))
             => /\ resp'.limit = C23_PageSize(z.val)
                /\ resp'.offset = (C23_Page(p.val) - 1) * C23_PageSize(z.val)
                /\ resp'.code = 200 =>
                      /\ resp'.page = C23_Page(p.val)
                      /\ resp'.page_size = C23_PageSize(z.val)]_vars

\* the ids a response will show
C24_Shown == {resp'.orders[i].ID : i \in 1..Len(resp'.orders)}

\* C24: when a row matched by ListOrdersByCustomer or by ListOrders fails to
\* decode, the row is skipped and the request is still answered 200 with all
\* the other matching rows (for ListOrders: all other stored orders, when
\* they fit the first page), unless the query itself fails.
C24_BadRowSkipped ==
    [][/\ \A c \in CustomerInputs :
             (/\ resp'.op = "bycustomer"
              /\ \E o \in WhereCustomer(c) : ~Decodable(o)
              /\ GetOrdersByCustomerID(c)
              /\ resp'.details # "failed to query orders")
             => /\ resp'.code = 200
                /\ C24_Shown = {o.id : o \in {q \in WhereCustomer(c) : Decodable(q)}}
       /\ \A p \in PageParams, z \in SizeParams :
             (/\ resp'.op = "list"
              /\ \E o \in orders : ~Decodable(o)
              /\ ServicePage(HandlerPage(p)) = 1
              /\ ServicePageSize(HandlerPageSize(z)) >= Cardinality(orders)
              /\ GetAllOrders(p, z)
              /\ resp'.details # "failed to query orders")
             => /\ resp'.code = 200
                /\ C24_Shown = {o.id : o \in {q \in orders : Decodable(q)}}]_vars

\* C25: when two UpdateOrderStatus requests with valid statuses run at the
\* same time on one stored order, each is answered 200 and leaves the status
\* it asked for, so that the stored status is the one of the statement
\* applied last; when an update runs at the same time as a DeleteOrder of the
\* order, the update is answered 200 before the delete or 404 after it and
\* writes nothing then, and a deleted order is never stored again (failures
\* of a statement in the store apart).
C25_ConcurrentWrites ==
    /\ [](\A id \in deleted : ~Stored(id))
    /\ []((/\ \A c \in Callers :
                /\ calls[c].pc = "done" /\ calls[c].op = "update" /\ calls[c].code = 200
                /\ calls[c].id = calls["a"].id
            /\ Stored(calls["a"].id))
           => \E c \in Callers, o \in orders :
                 o.id = calls[c].id /\ o.status = calls[c].status)
    /\ [][\A c \in Callers :
             (ExecUpdateOrderStatus(c) /\ calls'[c].code # 400)
             => IF Stored(calls[c].id)
                THEN /\ calls'[c].code = 200
                     /\ \E o \in orders' : o.id = calls[c].id /\ o.status = calls[c].status
                ELSE /\ calls'[c].code = 404
                     /\ orders' = orders]_vars

C25_Witness ==
    /\ calls["a"].pc = "done" /\ calls["a"].op = "update" /\ calls["a"].code = 404
    /\ calls["b"].pc = "done" /\ calls["b"].op = "delete" /\ calls["b"].code = 200
    /\ calls["a"].id = calls["b"].id
    /\ calls["b"].id \in deleted

\* C26: the orders of a ListOrders or ListOrdersByCustomer response come
\* newest first (order_date never increases along the response), and the
\* items of each returned order are exactly its stored item rows in
\* increasing id, an order that every read of the order repeats.
C26_NewestFirst ==
    (resp.op \in {"list", "bycustomer"} /\ resp.code = 200) =>
        /\ \A i, j \in 1..Len(resp.orders) :
              i < j => resp.orders[i].OrderDate >= resp.orders[j].OrderDate
        /\ \A i \in 1..Len(resp.orders) :
              LET items == resp.orders[i].Items IN
              /\ {items[k].ID : k \in 1..Len(items)} = {r.id : r \in ItemsOf(resp.orders[i].ID)}
              /\ \A k, l \in 1..Len(items) : k < l => items[k].ID[2] < items[l].ID[2]

C26_Witness ==
    /\ resp.op = "list" /\ resp.code = 200
    /\ Len(resp.orders) = 2
    /\ resp.orders[1].OrderDate > resp.orders[2].OrderDate
    /\ \E i \in 1..2 : Len(resp.orders[i].Items) = 2

\* C27: every GetOrder, ListOrders or ListOrdersByCustomer answered 200 shows
\* each of its orders with as many items as the order was created with,
\* also when a DeleteOrder of the order runs between the read of the order
\* row and the read of its items.
C27_ItemsComplete ==
    \A c \in Callers :
        (/\ calls[c].pc = "done" /\ calls[c].code = 200
         /\ calls[c].op \in {"get", "list", "bycustomer"})
        => \A i \in 1..Len(calls[c].orders) :
              Len(calls[c].orders[i].Items) = issued[calls[c].orders[i].ID]

\* the sum of the counts of a status_counts map
RECURSIVE C28_Sum(_)
C28_Sum(counts) ==
    IF DOMAIN counts = {} THEN 0
    ELSE LET st == CHOOSE x \in DOMAIN counts : TRUE
         IN counts[st] + C28_Sum([x \in DOMAIN counts \ {st} |-> counts[x]])

\* C28: in every statistics response answered 200 the per-status counts add
\* up to total_orders, for any number of stored orders and also when orders
\* are created or deleted between the count query and the row query.
C28_CountsSumToTotal ==
    /\ (resp.op = "stats" /\ resp.code = 200) => C28_Sum(resp.status_counts) = resp.total
    /\ \A c \in Callers :
          (calls[c].pc = "done" /\ calls[c].op = "stats" /\ calls[c].code = 200)
          => C28_Sum(calls[c].status_counts) = calls[c].total

\* C29: in the game service, when UpdateGame requests on one id run at the
\* same time as each other or as DeleteGame, the game a successful UpdateGame
\* returns equals the stored row as it is right after the UPDATE statement
\* of that request, and an UpdateGame whose game was deleted after its first
\* read fails and stores no row.
C29_NoStaleResponse ==
    [][\A c \in Callers :
          ExecUpdateGame(c) =>
             IF calls'[c].code = 200
             THEN \E r \in games' : r.id = calls[c].id /\ calls'[c].game = ScanGame(r)
             ELSE games' = games]_vars

\* C30: in the front-end tracker maxScrollPercentage stays in [0,100] and no
\* scroll event decreases it; a scroll report is sent only when the maximum
\* strictly increases, so that no two scroll reports of one page load carry
\* the same max_scroll_percentage, also when the computed percentage is
\* above 100.
C30_ScrollReports ==
    /\ [](tracker.maxScrollPercentage >= 0 /\ tracker.maxScrollPercentage <= 100)
    /\ [](\A i, j \in 1..Len(tracker.scroll_reports) :
             i # j => tracker.scroll_reports[i] # tracker.scroll_reports[j])
    /\ [][\A top \in ScrollTops, wh \in WindowHeights, sh \in ScrollHeights :
             trackScrollDepth(top, wh, sh, 2) =>
                /\ tracker'.maxScrollPercentage >= tracker.maxScrollPercentage
                /\ tracker'.scroll_reports # tracker.scroll_reports =>
                      tracker'.maxScrollPercentage > tracker.maxScrollPercentage]_vars

====
